---- MODULE Spec2Model ----
(***************************************************************************)
(* Model of the Fresh Produce query adapter                                *)
(* (elasticsearch-reporter/scripts/elasticsearch_client.py).               *)
(*                                                                         *)
(* Representation.                                                         *)
(*   - money is in hundredths (price_per_kg 5.99 is 599), quality_rating   *)
(*     in tenths (4.5 is 45), stock_kg and discount_percent are integers;  *)
(*   - a category is a sequence of one-character strings, so that          *)
(*     str.lower() and str.replace(" ", "_") are computed, not assumed;    *)
(*   - a Python dict is a function with a string domain: a missing key is  *)
(*     a string outside DOMAIN;                                            *)
(*   - the remote service evaluates the request document the adapter      *)
(*     built: filters and sorts are interpreted from the document, ties    *)
(*     and relevance order are chosen nondeterministically.                *)
(***************************************************************************)
EXTENDS Integers, Sequences, FiniteSets, TLC

VARIABLES
    env,        \* the process environment: ELASTICSEARCH_URL, ELASTICSEARCH_API_KEY
    store,      \* the remote collection: document id -> document
    adapter,    \* "none": no FreshProduceClient object, "ready": constructed
    call,       \* the last invocation: operation, arguments, requests, log, result
    caller,     \* the last run of a caller of the adapter: bot command or generator
    threads,    \* concurrent invocations on one adapter object, step by step
    setup,      \* the run of ElasticsearchSetup.run_setup and the cluster it acts on
    reports,    \* the /report handlers step by step, the reports directory, the clock
    bot         \* the bot process: the start-up in main, the cog, the global es_client

vars == <<env, store, adapter, call, caller, threads, setup, reports, bot>>

others == <<caller, threads, setup, reports, bot>>

----------------------------------------------------------------------------
(* Bounds *)

MaxDocs == 2        \* documents in the remote collection
MaxLimit == 2       \* largest limit argument tried

----------------------------------------------------------------------------
(* Small helpers *)

Min(a, b) == IF a < b THEN a ELSE b

Range(s) == {s[i] : i \in 1..Len(s)}

\* All enumerations of the finite set S without repetition.
Orderings(S) ==
    {s \in [1..Cardinality(S) -> S] : \A i, j \in 1..Cardinality(S) : s[i] = s[j] => i = j}

\* Python round(): n/d rounded to the nearest integer, halves to the even one.
\* n >= 0, d > 0.
round(n, d) ==
    LET q == n \div d
        r == n % d
    IN  IF 2 * r < d THEN q
        ELSE IF 2 * r > d THEN q + 1
        ELSE IF q % 2 = 0 THEN q ELSE q + 1

----------------------------------------------------------------------------
(* Strings as character sequences: str.lower(), str.replace(" ", "_") *)

Upper == <<"A", "B", "C", "D", "E", "F", "G", "H", "I", "J", "K", "L", "M",
           "N", "O", "P", "Q", "R", "S", "T", "U", "V", "W", "X", "Y", "Z">>

Lower == <<"a", "b", "c", "d", "e", "f", "g", "h", "i", "j", "k", "l", "m",
           "n", "o", "p", "q", "r", "s", "t", "u", "v", "w", "x", "y", "z">>

UpperToLower == [c \in Range(Upper) |-> Lower[CHOOSE i \in 1..26 : Upper[i] = c]]

lower(s) == [i \in 1..Len(s) |-> IF s[i] \in DOMAIN UpperToLower THEN UpperToLower[s[i]] ELSE s[i]]

replace_space(s) == [i \in 1..Len(s) |-> IF s[i] = " " THEN "_" ELSE s[i]]

vegetables == <<"v", "e", "g", "e", "t", "a", "b", "l", "e", "s">>
leafy_greens == <<"l", "e", "a", "f", "y", "_", "g", "r", "e", "e", "n", "s">>
roots == <<"r", "o", "o", "t", "s">>
fruits == <<"f", "r", "u", "i", "t", "s">>
herbs == <<"h", "e", "r", "b", "s">>

----------------------------------------------------------------------------
(* The remote collection *)

\* Documents the collection may hold.  The collection is managed outside the
\* adapter: it may hold inactive documents and documents lacking a field.
Catalogue ==
    [ p1 |-> [name |-> "tomato", description |-> "red", category |-> vegetables,
              price_per_kg |-> 595, stock_kg |-> 30, quality_rating |-> 45,
              organic |-> TRUE, on_sale |-> TRUE, discount_percent |-> 15,
              status |-> "active"],
      p2 |-> [name |-> "kale", description |-> "green", category |-> leafy_greens,
              price_per_kg |-> 450, stock_kg |-> 60, quality_rating |-> 48,
              organic |-> TRUE, on_sale |-> FALSE, discount_percent |-> 0,
              status |-> "active"],
      p3 |-> [name |-> "tomato", description |-> "cherry", category |-> vegetables,
              price_per_kg |-> 250, stock_kg |-> 30, quality_rating |-> 40,
              organic |-> FALSE, on_sale |-> TRUE, discount_percent |-> 35,
              status |-> "inactive"],
      p4 |-> [name |-> "mango", description |-> "tomato", category |-> fruits,
              price_per_kg |-> 250, stock_kg |-> 10, quality_rating |-> 45,
              organic |-> FALSE, on_sale |-> TRUE, discount_percent |-> 35,
              status |-> "active"],
      p5 |-> [name |-> "carrot", description |-> "orange", category |-> roots,
              price_per_kg |-> 333, stock_kg |-> 50, quality_rating |-> 37,
              organic |-> FALSE, on_sale |-> FALSE, discount_percent |-> 0,
              status |-> "active"],
      p6 |-> [name |-> "beet", description |-> "red", category |-> roots,
              price_per_kg |-> 420, stock_kg |-> 5, quality_rating |-> 30,
              organic |-> TRUE, on_sale |-> TRUE,
              status |-> "active"] ]

StoreOf(ids) == [id \in ids |-> Catalogue[id]]

\* A collection of three documents: two vegetables and one fruit, priced
\* 2.00, 4.00 and 6.00.
ThreeRecords ==
    [ s1 |-> [name |-> "leek", description |-> "mild", category |-> vegetables,
              price_per_kg |-> 200, stock_kg |-> 12, quality_rating |-> 41,
              organic |-> TRUE, on_sale |-> FALSE, discount_percent |-> 0,
              status |-> "active"],
      s2 |-> [name |-> "pepper", description |-> "sweet", category |-> vegetables,
              price_per_kg |-> 400, stock_kg |-> 20, quality_rating |-> 44,
              organic |-> FALSE, on_sale |-> TRUE, discount_percent |-> 10,
              status |-> "active"],
      s3 |-> [name |-> "pear", description |-> "ripe", category |-> fruits,
              price_per_kg |-> 600, stock_kg |-> 8, quality_rating |-> 38,
              organic |-> FALSE, on_sale |-> FALSE, discount_percent |-> 0,
              status |-> "inactive"] ]

Stores ==
    {StoreOf(ids) : ids \in {S \in SUBSET DOMAIN Catalogue : Cardinality(S) <= MaxDocs}}
        \cup {ThreeRecords}

----------------------------------------------------------------------------
(* The remote service: evaluation of the request documents *)

\* One clause of a filter: {"term": {field: value}} or {"range": {field: {"lt": value}}}.
Satisfies(doc, clause) ==
    /\ clause.field \in DOMAIN doc
    /\ CASE clause.op = "term" -> doc[clause.field] = clause.value
         [] clause.op = "lt" -> doc[clause.field] < clause.value
         [] clause.op = "lte" -> doc[clause.field] <= clause.value

\* The documents a query selects.  A multi_match selects the documents with a
\* matching name or description; a text_expansion ranks by a learned model and
\* may select any documents.
HitIdSets(query) ==
    CASE query.type = "bool" ->
            {{id \in DOMAIN store : \A i \in 1..Len(query.must) : Satisfies(store[id], query.must[i])}}
      [] query.type = "term" ->
            {{id \in DOMAIN store : Satisfies(store[id], query)}}
      [] query.type = "multi_match" ->
            {{id \in DOMAIN store : \/ store[id].name = query.query
                                    \/ store[id].description = query.query}}
      [] query.type = "text_expansion" ->
            SUBSET DOMAIN store

\* s is in the order the sort asks for; a document lacking the field sorts last.
InOrder(s, sort) ==
    \A i, j \in 1..Len(s) :
        i < j =>
            LET a == store[s[i]]
                b == store[s[j]]
            IN  IF sort.field \notin DOMAIN b THEN TRUE
                ELSE IF sort.field \notin DOMAIN a THEN FALSE
                ELSE IF sort.order = "asc" THEN a[sort.field] <= b[sort.field]
                ELSE a[sort.field] >= b[sort.field]

\* The source fields of a hit; _source=[...] restricts them.
SourceOf(id, source) ==
    IF source = {} THEN store[id]
    ELSE [f \in (DOMAIN store[id]) \cap source |-> store[id][f]]

\* The possible hit lists of a search: the selected documents, in sort order
\* (relevance order when no sort is given: any order), cut to size.
SearchResponses(req) ==
    {[i \in 1..Min(req.size, Len(s)) |->
            [_id |-> s[i], _score |-> 10 - i, _source |-> SourceOf(s[i], req.source)]] :
        s \in {o \in UNION {Orderings(ids) : ids \in HitIdSets(req.query)} :
                    req.sort.field = "_score" \/ InOrder(o, req.sort)}}

----------------------------------------------------------------------------
(* Requests, outcomes and the record of an invocation *)

\* How an outbound request ends: a response, or an exception of the transport
\* (network failure, timeout) or of the service (rejection).
Failures == {"ConnectionError", "RequestError"}

Outcomes == {"ok"} \cup Failures

NoQuery == [type |-> "none"]

NoSort == [field |-> "_score", order |-> "desc"]

\* hits is the number of hits of the response (0 until there is one).
Request(api, id, query, sort, size, source, timeout, outcome) ==
    [api |-> api, id |-> id, query |-> query, sort |-> sort, size |-> size,
     source |-> source, timeout |-> timeout, outcome |-> outcome, hits |-> 0]

\* The request, answered with the hit list hits.
Responded(req, hits) == [req EXCEPT !.hits = Len(hits)]

\* The collection after the service served the requests: a search, a count and
\* a fetch leave it as it is; a delete removes the document.
RECURSIVE RemoteAfter(_, _)
RemoteAfter(st, requests) ==
    IF Len(requests) = 0 THEN st
    ELSE LET req == requests[1]
             next == IF req.outcome = "ok" /\ req.api = "delete"
                     THEN [id \in (DOMAIN st) \ {req.id} |-> st[id]]
                     ELSE st
         IN  RemoteAfter(next, Tail(requests))

\* self.client.count(index=self.index)
CountRequest(outcome) == Request("count", "", NoQuery, NoSort, 0, {}, "", outcome)

\* self.client.search(index=self.index, query=..., sort=..., size=..., timeout="5s")
SearchRequest(query, sort, size, source, timeout, outcome) ==
    Request("search", "", query, sort, size, source, timeout, outcome)

\* self.client.get(index=self.index, id=product_id)
GetRequest_delete(id, outcome) == Request("delete", id, NoQuery, NoSort, 0, {}, "", outcome)

GetRequest(id, outcome) == Request("get", id, NoQuery, NoSort, 0, {}, "", outcome)

NoArgs == [text |-> "", category |-> <<>>, threshold |-> 0, limit |-> 0]

EmptyDict == [k \in {} |-> 0]

\* An invocation that returned: shape is "list" (result is the list), "record"
\* (result is <<the record>>), "None" (result is <<>>) or "dict" (result is
\* <<the dict>>).
Returned(op, args, requests, log, shape, result) ==
    [op |-> op, args |-> args, requests |-> requests, log |-> log,
     raised |-> "", shape |-> shape, result |-> result]

\* An invocation that raised exception e to its caller.
Raised(op, args, requests, log, e) ==
    [op |-> op, args |-> args, requests |-> requests, log |-> log,
     raised |-> e, shape |-> "raised", result |-> <<>>]

\* The end of an invocation as its except clause decides it.
Handled(op, args, requests, h) ==
    IF h.raised # "" THEN Raised(op, args, requests, h.log, h.raised)
    ELSE Returned(op, args, requests, h.log, h.shape, h.result)

\* d[k] = v on a dict
SetKey(d, k, v) == [f \in (DOMAIN d) \cup {k} |-> IF f = k THEN v ELSE d[f]]

----------------------------------------------------------------------------
(* FreshProduceClient *)

EnvValues == {"<unset>", "", "set"}

\* not value
Falsy(value) == value \in {"<unset>", ""}

\* if not self.es_url or not self.api_key
config_missing_url_only(es_url, api_key) == Falsy(es_url)

config_missing(es_url, api_key) == Falsy(es_url) \/ Falsy(api_key)

\* except Exception as e: logger.error(...); raise
init_except_swallow(e) == [raised |-> "", log |-> <<"error">>, shape |-> "None", result |-> <<>>]

init_except(e) == [raised |-> e, log |-> <<"error">>, shape |-> "raised", result |-> <<>>]

\* What an operation leaves alone: the environment and the adapter object; the
\* collection is what the service makes of the requests of the invocation.
AdapterFrame ==
    /\ store' = RemoteAfter(store, call'.requests)
    /\ UNCHANGED <<env, adapter, others>>

FreshProduceClient_init ==
    /\ adapter = "none"
    /\ IF config_missing(env.ELASTICSEARCH_URL, env.ELASTICSEARCH_API_KEY)
       THEN /\ call' = Raised("__init__", NoArgs, <<>>, <<>>, "ValueError")
            /\ adapter' = "none"
       ELSE \E outcome \in Outcomes :
                LET req == CountRequest(outcome)
                IN  IF outcome = "ok"
                    THEN /\ call' = Returned("__init__", NoArgs, <<req>>, <<"info">>, "None", <<>>)
                         /\ adapter' = "ready"
                    ELSE /\ call' = Handled("__init__", NoArgs, <<req>>, init_except(outcome))
                         /\ adapter' = IF init_except(outcome).raised # "" THEN "none" ELSE "ready"
    /\ store' = RemoteAfter(store, call'.requests)
    /\ UNCHANGED <<env, others>>

\* product = hit["_source"]; product["_id"] = hit["_id"]
with_id_source_only(hit) == hit._source

with_id(hit) == SetKey(hit._source, "_id", hit._id)

Queries == {"tomato", "kale", "durian"}

search_by_name_except_raise(e) == [raised |-> e, log |-> <<"error">>, shape |-> "raised", result |-> <<>>]

search_by_name_except_none(e) == [raised |-> "", log |-> <<"error">>, shape |-> "None", result |-> <<>>]

search_by_name_except(e) == [raised |-> "", log |-> <<"error">>, shape |-> "list", result |-> <<>>]

search_by_name_query(product_name) ==
    [type |-> "multi_match", query |-> product_name,
     fields |-> <<"name^2", "description">>, fuzziness |-> "AUTO"]

\* One invocation search_by_name(product_name, limit).
search_by_name_call(product_name, limit) ==
    \E outcome \in Outcomes :
        LET args == [NoArgs EXCEPT !.text = product_name, !.limit = limit]
            req == SearchRequest(search_by_name_query(product_name), NoSort, limit, {}, "5s", outcome)
        IN  IF outcome # "ok"
            THEN call' = Handled("search_by_name", args, <<req>>, search_by_name_except(outcome))
            ELSE \E hits \in SearchResponses(req) :
                    call' = Returned("search_by_name", args, <<Responded(req, hits)>>, <<"info">>, "list",
                                     [i \in 1..Len(hits) |-> with_id(hits[i])])

search_by_name ==
    /\ adapter = "ready"
    /\ \E product_name \in Queries, limit \in 1..MaxLimit : search_by_name_call(product_name, limit)
    /\ AdapterFrame

Term(field, value) == [op |-> "term", field |-> field, value |-> value]

RangeLt(field, value) == [op |-> "lt", field |-> field, value |-> value]

Bool(must) == [type |-> "bool", must |-> must]

get_on_sale_products_except(e) == [raised |-> "", log |-> <<"error">>, shape |-> "list", result |-> <<>>]

get_on_sale_products_query == Bool(<<Term("on_sale", TRUE), Term("status", "active")>>)

\* round(product["price_per_kg"] * (1 - product["discount_percent"] / 100), 2)
discounted_price_of_discount(product) ==
    round(product.price_per_kg * product.discount_percent, 100)

discounted_price(product) ==
    round(product.price_per_kg * (100 - product.discount_percent), 100)

get_on_sale_products ==
    /\ adapter = "ready"
    /\ \E limit \in 1..MaxLimit, outcome \in Outcomes :
            LET args == [NoArgs EXCEPT !.limit = limit]
                req == SearchRequest(get_on_sale_products_query,
                                     [field |-> "discount_percent", order |-> "desc"],
                                     limit, {}, "5s", outcome)
            IN  IF outcome # "ok"
                THEN call' = Handled("get_on_sale_products", args, <<req>>,
                                     get_on_sale_products_except(outcome))
                ELSE \E hits \in SearchResponses(req) :
                        IF \E i \in 1..Len(hits) :
                                {"price_per_kg", "discount_percent"} \ DOMAIN hits[i]._source # {}
                        THEN call' = Handled("get_on_sale_products", args, <<Responded(req, hits)>>,
                                             get_on_sale_products_except("KeyError"))
                        ELSE call' = Returned("get_on_sale_products", args, <<Responded(req, hits)>>, <<"info">>, "list",
                                        [i \in 1..Len(hits) |->
                                            SetKey(with_id(hits[i]), "discounted_price",
                                                   discounted_price(with_id(hits[i])))])
    /\ AdapterFrame

Thresholds == {10, 30, 50, 100}

get_low_stock_products_except(e) == [raised |-> "", log |-> <<"error">>, shape |-> "list", result |-> <<>>]

get_low_stock_products_query_lte(threshold_kg) ==
    Bool(<<[op |-> "lte", field |-> "stock_kg", value |-> threshold_kg], Term("status", "active")>>)

get_low_stock_products_query(threshold_kg) ==
    Bool(<<RangeLt("stock_kg", threshold_kg), Term("status", "active")>>)

get_low_stock_products ==
    /\ adapter = "ready"
    /\ \E threshold_kg \in Thresholds, outcome \in Outcomes :
            LET args == [NoArgs EXCEPT !.threshold = threshold_kg]
                req == SearchRequest(get_low_stock_products_query(threshold_kg),
                                     [field |-> "stock_kg", order |-> "asc"],
                                     100, {}, "5s", outcome)
            IN  IF outcome # "ok"
                THEN call' = Handled("get_low_stock_products", args, <<req>>,
                                     get_low_stock_products_except(outcome))
                ELSE \E hits \in SearchResponses(req) :
                        call' = Returned("get_low_stock_products", args, <<Responded(req, hits)>>, <<"info">>, "list",
                                         [i \in 1..Len(hits) |-> with_id(hits[i])])
    /\ AdapterFrame

CategoryInputs ==
    { vegetables,
      <<"V", "e", "g", "e", "t", "a", "b", "l", "e", "s">>,
      <<"L", "e", "a", "f", "y", " ", "G", "r", "e", "e", "n", "s">>,
      <<"R", "O", "O", "T", "S">>,
      fruits,
      <<"f", "r", "u", "i", "t", " ", "s">>,
      herbs,
      <<>> }

valid_categories_with_herbs == <<vegetables, leafy_greens, roots, fruits, herbs>>

valid_categories == <<vegetables, leafy_greens, roots, fruits>>

\* category.lower().replace(" ", "_")
category_lower(category) == replace_space(lower(category))

get_by_category_except(e) == [raised |-> "", log |-> <<"error">>, shape |-> "list", result |-> <<>>]

get_by_category_query_raw(category) ==
    Bool(<<Term("category", category), Term("status", "active")>>)

get_by_category_query(category) ==
    Bool(<<Term("category", category_lower(category)), Term("status", "active")>>)

get_by_category ==
    /\ adapter = "ready"
    /\ \E category \in CategoryInputs, limit \in 1..MaxLimit, outcome \in Outcomes :
            LET args == [NoArgs EXCEPT !.category = category, !.limit = limit]
                req == SearchRequest(get_by_category_query(category),
                                     [field |-> "quality_rating", order |-> "desc"],
                                     limit, {}, "5s", outcome)
            IN  IF category_lower(category) \notin Range(valid_categories)
                THEN call' = Returned("get_by_category", args, <<>>, <<"warning">>, "list", <<>>)
                ELSE IF outcome # "ok"
                THEN call' = Handled("get_by_category", args, <<req>>, get_by_category_except(outcome))
                ELSE \E hits \in SearchResponses(req) :
                        call' = Returned("get_by_category", args, <<Responded(req, hits)>>, <<"info">>, "list",
                                         [i \in 1..Len(hits) |-> with_id(hits[i])])
    /\ AdapterFrame

get_all_products_except(e) == [raised |-> "", log |-> <<"error">>, shape |-> "list", result |-> <<>>]

get_all_products_query == [type |-> "term", op |-> "term", field |-> "status", value |-> "active"]

get_all_products ==
    /\ adapter = "ready"
    /\ \E limit \in 1..MaxLimit, outcome \in Outcomes :
            LET args == [NoArgs EXCEPT !.limit = limit]
                req == SearchRequest(get_all_products_query, NoSort, limit, {}, "5s", outcome)
            IN  IF outcome # "ok"
                THEN call' = Handled("get_all_products", args, <<req>>, get_all_products_except(outcome))
                ELSE \E hits \in SearchResponses(req) :
                        call' = Returned("get_all_products", args, <<Responded(req, hits)>>, <<"info">>, "list",
                                         [i \in 1..Len(hits) |-> with_id(hits[i])])
    /\ AdapterFrame

get_product_by_id_except_raise(e) == [raised |-> e, log |-> <<"error">>, shape |-> "raised", result |-> <<>>]

get_product_by_id_except(e) == [raised |-> "", log |-> <<"error">>, shape |-> "None", result |-> <<>>]

\* The response of a document fetch: the service answers 404 for an id the
\* collection does not hold, which the transport raises as NotFoundError.
GetOutcome(id, outcome) ==
    IF outcome = "ok" /\ id \notin DOMAIN store THEN "NotFoundError" ELSE outcome

\* The response of a successful fetch of a held document.
GetResponse(id) == [_id |-> id, _source |-> store[id]]

get_product_by_id ==
    /\ adapter = "ready"
    /\ \E product_id \in DOMAIN Catalogue, outcome \in Outcomes :
            LET args == [NoArgs EXCEPT !.text = product_id]
                req == GetRequest(product_id, GetOutcome(product_id, outcome))
                response == GetResponse(product_id)
            IN  IF req.outcome # "ok"
                THEN call' = Handled("get_product_by_id", args, <<req>>,
                                     get_product_by_id_except(req.outcome))
                ELSE call' = Returned("get_product_by_id", args, <<req>>, <<"info">>, "record",
                                      <<with_id(response)>>)
    /\ AdapterFrame

\* _source=[...] of semantic_search_elser
semantic_source ==
    {"name", "description", "price_per_kg", "category", "quality_rating", "organic",
     "on_sale", "discount_percent", "stock_kg", "origin", "tags"}

\* except es_exceptions.RequestError: two error lines; except Exception: one
semantic_search_elser_except(e) ==
    [raised |-> "", shape |-> "list", result |-> <<>>,
     log |-> IF e = "RequestError" THEN <<"error", "error">> ELSE <<"error">>]

semantic_search_elser_query(query_text) ==
    [type |-> "text_expansion", field |-> "ml.inference.semantic_text_expanded",
     model_id |-> ".elser_model_2_linux-x86_64", model_text |-> query_text]

\* product = hit["_source"]; product["_score"] = hit["_score"]
with_score(hit) == SetKey(hit._source, "_score", hit._score)

\* One invocation semantic_search_elser(query_text, limit).
semantic_search_elser_call(query_text, limit) ==
    \E outcome \in Outcomes :
        LET args == [NoArgs EXCEPT !.text = query_text, !.limit = limit]
            req == SearchRequest(semantic_search_elser_query(query_text), NoSort, limit,
                                 semantic_source, "", outcome)
        IN  IF outcome # "ok"
            THEN call' = Handled("semantic_search_elser", args, <<req>>,
                                 semantic_search_elser_except(outcome))
            ELSE \E hits \in SearchResponses(req) :
                    call' = Returned("semantic_search_elser", args, <<Responded(req, hits)>>,
                                     <<"info">>, "list",
                                     [i \in 1..Len(hits) |-> with_score(hits[i])])

semantic_search_elser ==
    /\ adapter = "ready"
    /\ \E query_text \in Queries, limit \in 1..MaxLimit : semantic_search_elser_call(query_text, limit)
    /\ AdapterFrame

\* close(): closes the transport; it sends nothing to the service.
close ==
    /\ adapter = "ready"
    /\ \E closed \in BOOLEAN :
            call' = Returned("close", NoArgs, <<>>, IF closed THEN <<"info">> ELSE <<"error">>,
                             "None", <<>>)
    /\ AdapterFrame

\* The "aggs" document of get_stats; the request has no query (every document).
agg_query ==
    [type |-> "aggs",
     aggs |-> {"by_category", "avg_price", "avg_rating", "total_stock",
               "organic_count", "on_sale_count"}]

RECURSIVE SumField(_, _)
\* The sum of field over the documents ids, which all have it.
SumField(ids, field) ==
    IF ids = {} THEN 0
    ELSE LET id == CHOOSE x \in ids : TRUE
         IN  store[id][field] + SumField(ids \ {id}, field)

Having(field) == {id \in DOMAIN store : field \in DOMAIN store[id]}

\* The aggregations of the service over the whole collection.  An average over
\* no value is null (den = 0); it is kept as the fraction num/den.
Aggregations ==
    [by_category |->
        [c \in {store[id].category : id \in Having("category")} |->
            Cardinality({id \in Having("category") : store[id].category = c})],
     avg_price |-> [num |-> SumField(Having("price_per_kg"), "price_per_kg"),
                    den |-> Cardinality(Having("price_per_kg"))],
     avg_rating |-> [num |-> SumField(Having("quality_rating"), "quality_rating"),
                     den |-> Cardinality(Having("quality_rating"))],
     total_stock |-> SumField(Having("stock_kg"), "stock_kg"),
     organic_count |-> Cardinality({id \in Having("organic") : store[id].organic = TRUE}),
     on_sale_count |-> Cardinality({id \in Having("on_sale") : store[id].on_sale = TRUE})]

\* The fields built so far returned instead of the empty dict:
get_stats_except_partial(e) ==
    [raised |-> "", log |-> <<"error">>, shape |-> "dict", result |-> <<[total_products |-> 0]>>]

get_stats_except(e) == [raised |-> "", log |-> <<"error">>, shape |-> "dict", result |-> <<EmptyDict>>]

\* The summary dict built from the count and the aggregations (hundredths
\* for the price, tenths for the rating).  The price rounded to one decimal
\* instead of two:
stats_price_one_decimal(total_products, aggregations) ==
    [total_products |-> total_products,
     average_price_per_kg |->
        10 * round(aggregations.avg_price.num, 10 * aggregations.avg_price.den),
     average_rating |-> round(aggregations.avg_rating.num, aggregations.avg_rating.den),
     total_stock_kg |-> aggregations.total_stock,
     organic_products |-> aggregations.organic_count,
     products_on_sale |-> aggregations.on_sale_count,
     categories |-> aggregations.by_category]

stats(total_products, aggregations) ==
    [total_products |-> total_products,
     average_price_per_kg |-> round(aggregations.avg_price.num, aggregations.avg_price.den),
     average_rating |-> round(aggregations.avg_rating.num, aggregations.avg_rating.den),
     total_stock_kg |-> aggregations.total_stock,
     organic_products |-> aggregations.organic_count,
     products_on_sale |-> aggregations.on_sale_count,
     categories |-> aggregations.by_category]

\* The requests get_stats issues: the search follows the count only if the
\* count did not raise.
get_stats_requests_both(count_req, req) == <<count_req, req>>

get_stats_requests_count_only(count_req, req) == <<count_req>>

get_stats_requests(count_req, req) ==
    IF count_req.outcome # "ok" THEN <<count_req>> ELSE <<count_req, req>>

get_stats ==
    /\ adapter = "ready"
    /\ \E count_outcome \in Outcomes, outcome \in Outcomes :
            LET count_req == CountRequest(count_outcome)
                total_products == Cardinality(DOMAIN store)
                req == SearchRequest(agg_query, NoSort, 0, {}, "5s", outcome)
                aggregations == Aggregations
                requests == get_stats_requests(count_req, req)
            IN  IF count_outcome # "ok"
                THEN call' = Handled("get_stats", NoArgs, requests, get_stats_except(count_outcome))
                ELSE IF outcome # "ok"
                THEN call' = Handled("get_stats", NoArgs, requests, get_stats_except(outcome))
                ELSE IF aggregations.avg_price.den = 0 \/ aggregations.avg_rating.den = 0
                THEN \* round(None, 2)
                     call' = Handled("get_stats", NoArgs, requests, get_stats_except("TypeError"))
                ELSE call' = Returned("get_stats", NoArgs, requests, <<"info">>, "dict",
                                      <<stats(total_products, aggregations)>>)
    /\ AdapterFrame

----------------------------------------------------------------------------

NoCaller ==
    [entry |-> "", input |-> "", deferred |-> FALSE, followups |-> <<>>, adapter_calls |-> <<>>]

NoThreads == <<>>

NoSetup == [pc |-> 0]

NoReports == [clock |-> ""]

NoBot == [pc |-> ""]

Init ==
    /\ env \in [ELASTICSEARCH_URL : EnvValues, ELASTICSEARCH_API_KEY : EnvValues]
    /\ store \in Stores
    /\ adapter = "none"
    /\ call = Returned("", NoArgs, <<>>, <<>>, "None", <<>>)
    /\ caller = NoCaller
    /\ threads = NoThreads
    /\ setup = NoSetup
    /\ reports = NoReports
    /\ bot = NoBot

Next ==
    \/ FreshProduceClient_init
    \/ search_by_name
    \/ get_on_sale_products
    \/ get_low_stock_products
    \/ get_by_category
    \/ get_all_products
    \/ get_product_by_id
    \/ get_stats
    \/ semantic_search_elser
    \/ close

Spec == Init /\ [][Next]_vars

----------------------------------------------------------------------------
(* The callers of the adapter: the bot's /search, /semantic and /report
   commands and the command line of the report generator *)

RECURSIVE Chars(_)
\* A text of n characters.
Chars(n) ==
    IF n = 0 THEN ""
    ELSE IF n % 2 = 0 THEN LET half == Chars(n \div 2) IN half \o half
    ELSE "a" \o Chars(n - 1)

\* Texts a user may type: short ones and ones around the two length limits.
CallerInputs == {"tomato", Chars(100), Chars(101), Chars(200), Chars(201)}

\* The collections the callers are run against.
\* A collection whose one document has no price_per_kg.
Unpriced ==
    [ u1 |-> [name |-> "tomato", description |-> "wild", category |-> vegetables,
              stock_kg |-> 5, quality_rating |-> 39, organic |-> TRUE, on_sale |-> FALSE,
              discount_percent |-> 0, status |-> "active"] ]

CallerStores == {StoreOf({}), StoreOf({"p1", "p3"}), StoreOf({"p2", "p6"}), Unpriced}

\* sys.argv[1:] of the report generator
GeneratorArgvs ==
    {<<>>, <<"tomato">>, <<"tomato", "kale">>, <<Chars(201)>>, <<Chars(100), Chars(100)>>}

RECURSIVE join(_)
\* " ".join(words)
join(words) ==
    IF Len(words) = 0 THEN ""
    ELSE IF Len(words) = 1 THEN words[1]
    ELSE words[1] \o " " \o join(Tail(words))

\* The query of the generator when it is given no argument (accents dropped).
default_query == "o que posso usar para fazer uma refeicao saudavel e colorida"

AdapterCall(op, text, limit, by) == [op |-> op, text |-> text, limit |-> limit, by |-> by]

\* One run of a caller: what it sent to the user and what it called.
CallerRun(entry, input, followups, adapter_calls) ==
    [entry |-> entry, input |-> input, deferred |-> entry # "generator",
     followups |-> followups, adapter_calls |-> adapter_calls]

\* except Exception as e: logger.error(...); await interaction.followup.send(...)
handler_except_log_only(e) == <<>>

handler_except(e) == <<"error">>

\* format_product_embed(product) raises KeyError on a product without
\* price_per_kg.
format_product_embed_raises(products) ==
    \E i \in 1..Len(products) : "price_per_kg" \notin DOMAIN products[i]

\* What the caller leaves alone besides the collection, which the service
\* keeps as the requests of the adapter make it.
CallerFrame ==
    /\ store' = RemoteAfter(store, call'.requests)
    /\ UNCHANGED <<env, adapter, threads, setup, reports, bot>>

\* /search product_name
bot_search ==
    /\ adapter = "ready"
    /\ \E product_name \in CallerInputs :
            IF Len(product_name) > 100
            THEN /\ caller' = CallerRun("/search", product_name, <<"too long">>, <<>>)
                 /\ call' = call
            ELSE /\ search_by_name_call(product_name, 5)
                 /\ caller' = CallerRun("/search", product_name,
                        IF Len(call'.result) = 0 THEN <<"no products found">>
                        ELSE IF format_product_embed_raises(call'.result)
                        THEN handler_except("KeyError")
                        ELSE <<"found">>,
                        <<AdapterCall("search_by_name", product_name, 5, "bot")>>)
    /\ CallerFrame

\* /semantic query
bot_semantic ==
    /\ adapter = "ready"
    /\ \E query \in CallerInputs :
            IF Len(query) > 200
            THEN /\ caller' = CallerRun("/semantic", query, <<"too long">>, <<>>)
                 /\ call' = call
            ELSE /\ semantic_search_elser_call(query, 5)
                 /\ caller' = CallerRun("/semantic", query,
                        IF Len(call'.result) = 0 THEN <<"no products found">>
                        ELSE IF format_product_embed_raises(call'.result)
                        THEN handler_except("KeyError")
                        ELSE <<"found">>,
                        <<AdapterCall("semantic_search_elser", query, 5, "bot")>>)
    /\ CallerFrame

\* How the run of semantic_report_generator.py from /report ends: exit code 0
\* after its own semantic search, a non-zero exit code when its module-level
\* FreshProduceClient() raised, or subprocess.run itself raising.
GeneratorEnds == {"exit 0", "exit 1", "OSError"}

\* How the run of vercel ends.
VercelEnds == {"exit 0", "exit 1", "OSError"}

\* /report query
bot_report ==
    /\ adapter = "ready"
    /\ \E query \in CallerInputs, generator \in GeneratorEnds, vercel \in VercelEnds :
            IF Len(query) > 200
            THEN /\ caller' = CallerRun("/report", query, <<"too long">>, <<>>)
                 /\ call' = call
            ELSE /\ semantic_search_elser_call(query, 10)
                 /\ LET own == <<AdapterCall("semantic_search_elser", query, 10, "bot")>>
                        sub == <<AdapterCall("semantic_search_elser", join(<<query>>), 10, "generator")>>
                    IN  caller' =
                            IF Len(call'.result) = 0
                            THEN CallerRun("/report", query, <<"searching", "no products found">>, own)
                            ELSE IF generator = "OSError"
                            THEN CallerRun("/report", query,
                                           <<"searching", "generating">> \o handler_except(generator), own)
                            ELSE IF generator = "exit 1"
                            THEN CallerRun("/report", query,
                                           <<"searching", "generating", "report generation failed">>, own)
                            ELSE IF vercel = "OSError"
                            THEN CallerRun("/report", query,
                                           <<"searching", "generating", "deploying">>
                                                \o handler_except(vercel), own \o sub)
                            ELSE IF vercel = "exit 1"
                            THEN CallerRun("/report", query,
                                           <<"searching", "generating", "deploying", "deploy failed">>,
                                           own \o sub)
                            ELSE IF \E i \in 1..Min(3, Len(call'.result)) :
                                        "name" \notin DOMAIN call'.result[i]
                            THEN CallerRun("/report", query,
                                           <<"searching", "generating", "deploying">>
                                                \o handler_except("KeyError"), own \o sub)
                            ELSE CallerRun("/report", query,
                                           <<"searching", "generating", "deploying", "success">>,
                                           own \o sub)
    /\ CallerFrame

\* python3 semantic_report_generator.py argv...: the module builds its own
\* FreshProduceClient, joins the arguments into the query and searches.
generator_main ==
    /\ \E argv \in GeneratorArgvs, constructed \in BOOLEAN :
            LET query == IF Len(argv) > 0 THEN join(argv) ELSE default_query
            IN  IF ~constructed
                THEN /\ caller' = CallerRun("generator", query, <<>>, <<>>)
                     /\ call' = call
                ELSE /\ semantic_search_elser_call(query, 10)
                     /\ caller' = CallerRun("generator", query, <<>>,
                            <<AdapterCall("semantic_search_elser", query, 10, "generator")>>)
    /\ CallerFrame

----------------------------------------------------------------------------
(* ElasticsearchSetup.run_setup: the seven steps, one action each *)

MaxProducts == 2    \* products in data/products.json

\* A call to the cluster and how it ended.
SetupCall(api, outcome) == [api |-> api, outcome |-> outcome]

\* How a call may end besides its regular answer.
CallEnds == {"ok", "fail"}

\* The cluster as the setup finds it: the index and its mapping ("own" is
\* the mapping create_index gives it, "other" any other one), the own
\* documents (indexed by load_products, with semantic_text), a foreign
\* document without semantic_text, the ELSER model and the ingest pipeline.
Clusters ==
    {c \in [index : BOOLEAN, mapping : {"none", "own", "other"},
            docs : SUBSET (1..MaxProducts), foreign : BOOLEAN,
            model : {"absent", "not_deployed", "started"}, pipeline : BOOLEAN] :
        /\ c.index <=> c.mapping # "none"
        /\ ~c.index => (c.docs = {} /\ ~c.foreign)}

DocCount(c) == Cardinality(c.docs) + (IF c.foreign THEN 1 ELSE 0)

\* What follows step k in the loop of run_setup: the next step, or the end
\* of the run with its result.
run_setup_after_ignoring(k, returned) ==
    IF k = 7 THEN [pc |-> 8, result |-> "True"] ELSE [pc |-> k + 1, result |-> "running"]

run_setup_after(k, returned) ==
    IF ~returned THEN [pc |-> 8, result |-> "False"]
    ELSE IF k = 7 THEN [pc |-> 8, result |-> "True"]
    ELSE [pc |-> k + 1, result |-> "running"]

\* Step k, named name, made the calls requests, left the cluster as cluster
\* and returned returned.
Stepped(k, name, returned, requests, cluster) ==
    [setup EXCEPT !.pc = run_setup_after(k, returned).pc,
                  !.result = run_setup_after(k, returned).result,
                  !.cluster = cluster,
                  !.steps = Append(@, [name |-> name, returned |-> returned,
                                       requests |-> requests])]

SetupFrame == UNCHANGED <<env, store, adapter, call, caller, threads, reports, bot>>

\* if self.client.indices.exists(...): if not force: ... return True
returns_existing_ignoring_force(index_exists, force) == index_exists

returns_existing(index_exists, force) == index_exists /\ ~force

create_index ==
    /\ setup.pc = 1
    /\ \E exists \in CallEnds, delete \in CallEnds, create \in CallEnds :
            LET c == setup.cluster
                deleted == [c EXCEPT !.index = FALSE, !.mapping = "none", !.docs = {},
                                     !.foreign = FALSE]
                created == [c EXCEPT !.index = TRUE, !.mapping = "own", !.docs = {},
                                     !.foreign = FALSE]
                x == <<SetupCall("indices.exists", exists)>>
                d == <<SetupCall("indices.delete", delete)>>
                n == <<SetupCall("indices.create", create)>>
            IN  setup' =
                    IF exists # "ok" THEN Stepped(1, "Create Index", FALSE, x, c)
                    ELSE IF returns_existing(c.index, setup.force)
                    THEN Stepped(1, "Create Index", TRUE, x, c)
                    ELSE IF c.index /\ delete # "ok"
                    THEN Stepped(1, "Create Index", FALSE, x \o d, c)
                    ELSE IF create # "ok"
                    THEN Stepped(1, "Create Index", FALSE,
                                 IF c.index THEN x \o d \o n ELSE x \o n,
                                 IF c.index THEN deleted ELSE c)
                    ELSE Stepped(1, "Create Index", TRUE,
                                 IF c.index THEN x \o d \o n ELSE x \o n, created)
    /\ SetupFrame

load_products ==
    /\ setup.pc = 2
    /\ \E failed \in SUBSET (1..setup.products), refresh \in CallEnds :
            LET c == setup.cluster
                indexed == (1..setup.products) \ failed
                loaded == [c EXCEPT !.index = @ \/ indexed # {},
                                    !.mapping = IF @ = "none" /\ indexed # {} THEN "other" ELSE @,
                                    !.docs = @ \cup indexed]
                requests ==
                    [i \in 1..setup.products |->
                        SetupCall("index", IF i \in failed THEN "fail" ELSE "ok")]
                    \o <<SetupCall("indices.refresh", refresh)>>
            IN  setup' =
                    IF ~setup.file THEN Stepped(2, "Load Products", FALSE, <<>>, c)
                    ELSE IF refresh # "ok" THEN Stepped(2, "Load Products", FALSE, requests, loaded)
                    ELSE Stepped(2, "Load Products", indexed # {}, requests, loaded)
    /\ SetupFrame

\* check_elser_deployment on cluster c, its two calls ending as models and
\* stats: whether it returns True, and the calls it made.
CheckElser(c, models, stats_end) ==
    LET m == SetupCall("ml.get_trained_models",
                       IF models = "ok" /\ c.model = "absent" THEN "not_found" ELSE models)
        t == SetupCall("ml.get_trained_models_stats", stats_end)
    IN  IF m.outcome # "ok" THEN [returned |-> FALSE, requests |-> <<m>>]
        ELSE IF t.outcome # "ok" THEN [returned |-> FALSE, requests |-> <<m, t>>]
        ELSE [returned |-> c.model = "started", requests |-> <<m, t>>]

check_elser_deployment ==
    /\ setup.pc = 3
    /\ \E models \in CallEnds, stats_end \in CallEnds :
            LET r == CheckElser(setup.cluster, models, stats_end)
            IN  setup' = Stepped(3, "Check ELSER", r.returned, r.requests, setup.cluster)
    /\ SetupFrame

deploy_elser ==
    /\ setup.pc = 4
    /\ \E start \in CallEnds :
            LET c == setup.cluster
                outcome == IF start # "ok" THEN start
                           ELSE IF c.model = "absent" THEN "not_found"
                           ELSE IF c.model = "started" THEN "resource_already_exists_exception"
                           ELSE "ok"
                requests == <<SetupCall("ml.start_trained_model_deployment", outcome)>>
            IN  setup' =
                    IF setup.skip_elser THEN Stepped(4, "Deploy ELSER", TRUE, <<>>, c)
                    ELSE IF outcome = "ok"
                    THEN Stepped(4, "Deploy ELSER", TRUE, requests, [c EXCEPT !.model = "started"])
                    ELSE Stepped(4, "Deploy ELSER", outcome = "resource_already_exists_exception",
                                 requests, c)
    /\ SetupFrame

create_ingest_pipeline ==
    /\ setup.pc = 5
    /\ \E put \in CallEnds :
            setup' = Stepped(5, "Create Pipeline", put = "ok",
                             <<SetupCall("ingest.put_pipeline", put)>>,
                             [setup.cluster EXCEPT !.pipeline = @ \/ put = "ok"])
    /\ SetupFrame

generate_embeddings ==
    /\ setup.pc = 6
    /\ \E update \in CallEnds :
            setup' = Stepped(6, "Generate Embeddings", update = "ok",
                             <<SetupCall("update_by_query", update)>>, setup.cluster)
    /\ SetupFrame

validate_setup ==
    /\ setup.pc = 7
    /\ \E exists \in CallEnds, count \in CallEnds, models \in CallEnds, stats_end \in CallEnds,
          get \in CallEnds, search \in CallEnds, first_has_semantic_text \in BOOLEAN :
            LET c == setup.cluster
                x == <<SetupCall("indices.exists", exists)>>
                n == <<SetupCall("count", IF count = "ok" /\ ~c.index THEN "not_found" ELSE count)>>
                e == CheckElser(c, models, stats_end)
                g == <<SetupCall("ingest.get_pipeline",
                                 IF get = "ok" /\ ~c.pipeline THEN "not_found" ELSE get)>>
                q == <<SetupCall("search", search)>>
            IN  /\ first_has_semantic_text \in
                        {b \in BOOLEAN : (b /\ c.docs # {}) \/ (~b /\ (c.foreign \/ c.docs = {}))}
                /\ setup' =
                    IF exists # "ok" \/ ~c.index
                    THEN Stepped(7, "Validate Setup", FALSE, x, c)
                    ELSE IF n[1].outcome # "ok" \/ DocCount(c) = 0
                    THEN Stepped(7, "Validate Setup", FALSE, x \o n, c)
                    ELSE IF ~e.returned
                    THEN Stepped(7, "Validate Setup", FALSE, x \o n \o e.requests, c)
                    ELSE IF g[1].outcome # "ok"
                    THEN Stepped(7, "Validate Setup", FALSE, x \o n \o e.requests \o g, c)
                    ELSE IF search # "ok"
                    THEN Stepped(7, "Validate Setup", FALSE, x \o n \o e.requests \o g \o q, c)
                    ELSE Stepped(7, "Validate Setup", first_has_semantic_text,
                                 x \o n \o e.requests \o g \o q, c)
    /\ SetupFrame

SetupInit ==
    /\ env = [ELASTICSEARCH_URL |-> "set", ELASTICSEARCH_API_KEY |-> "set"]
    /\ store = StoreOf({})
    /\ adapter = "none"
    /\ call = Returned("", NoArgs, <<>>, <<>>, "None", <<>>)
    /\ caller = NoCaller
    /\ threads = NoThreads
    /\ reports = NoReports
    /\ bot = NoBot
    /\ \E force \in BOOLEAN, skip_elser \in BOOLEAN, file \in BOOLEAN,
          products \in 0..MaxProducts, cluster \in Clusters :
            setup = [pc |-> 1, force |-> force, skip_elser |-> skip_elser, file |-> file,
                     products |-> products, cluster |-> cluster, initial |-> cluster,
                     steps |-> <<>>, result |-> "running"]

SetupNext ==
    \/ create_index
    \/ load_products
    \/ check_elser_deployment
    \/ deploy_elser
    \/ create_ingest_pipeline
    \/ generate_embeddings
    \/ validate_setup

SetupSpec == SetupInit /\ [][SetupNext]_vars

----------------------------------------------------------------------------
(* Concurrent invocations on one adapter object, step by step *)

Threads == {"t1", "t2"}

\* Elasticsearch(..., request_timeout=30): the seconds after which the
\* transport gives up on a request.
request_timeout == 30

\* The bound on the time a request may block its caller.  No operation
\* overrides the client's request_timeout; timeout="5s" is the budget the
\* service gives the search.  With the per-call budget as the only bound:
Deadline_per_call_only(req) == IF req.timeout = "5s" THEN 5 ELSE 0

Deadline(req) == request_timeout

\* The collections the concurrent invocations run against.
ThreadStores == {StoreOf({}), StoreOf({"p1", "p4"}), StoreOf({"p2", "p6"})}

Invocation(op, args) == [op |-> op, args |-> args]

\* The invocations the threads make.
Invocations ==
    {Invocation("search_by_name", [NoArgs EXCEPT !.text = "tomato", !.limit = MaxLimit]),
     Invocation("search_by_name", [NoArgs EXCEPT !.text = "kale", !.limit = 1]),
     Invocation("get_on_sale_products", [NoArgs EXCEPT !.limit = MaxLimit]),
     Invocation("get_low_stock_products", [NoArgs EXCEPT !.threshold = 30]),
     Invocation("get_by_category", [NoArgs EXCEPT !.category = fruits, !.limit = MaxLimit]),
     Invocation("get_by_category", [NoArgs EXCEPT !.category = herbs, !.limit = MaxLimit]),
     Invocation("get_all_products", [NoArgs EXCEPT !.limit = 1]),
     Invocation("get_product_by_id", [NoArgs EXCEPT !.text = "p1"]),
     Invocation("get_product_by_id", [NoArgs EXCEPT !.text = "p2"]),
     Invocation("semantic_search_elser", [NoArgs EXCEPT !.text = "kale", !.limit = 1]),
     Invocation("get_stats", NoArgs),
     Invocation("close", NoArgs)}

\* The requests an invocation issues one after the other, as long as none
\* raises.
Plan(op, args) ==
    CASE op = "search_by_name" ->
            <<SearchRequest(search_by_name_query(args.text), NoSort, args.limit, {}, "5s", "ok")>>
      [] op = "get_on_sale_products" ->
            <<SearchRequest(get_on_sale_products_query,
                            [field |-> "discount_percent", order |-> "desc"],
                            args.limit, {}, "5s", "ok")>>
      [] op = "get_low_stock_products" ->
            <<SearchRequest(get_low_stock_products_query(args.threshold),
                            [field |-> "stock_kg", order |-> "asc"], 100, {}, "5s", "ok")>>
      [] op = "get_by_category" ->
            IF category_lower(args.category) \notin Range(valid_categories) THEN <<>>
            ELSE <<SearchRequest(get_by_category_query(args.category),
                                 [field |-> "quality_rating", order |-> "desc"],
                                 args.limit, {}, "5s", "ok")>>
      [] op = "get_all_products" ->
            <<SearchRequest(get_all_products_query, NoSort, args.limit, {}, "5s", "ok")>>
      [] op = "get_product_by_id" -> <<GetRequest(args.text, "ok")>>
      [] op = "semantic_search_elser" ->
            <<SearchRequest(semantic_search_elser_query(args.text), NoSort, args.limit,
                            semantic_source, "", "ok")>>
      [] op = "get_stats" ->
            <<CountRequest("ok"), SearchRequest(agg_query, NoSort, 0, {}, "5s", "ok")>>
      [] op = "close" -> <<>>

\* A response of the service: the hits of a search (the document of a
\* fetch), the count, the aggregations.
Response(hits, count, aggregations) ==
    [hits |-> hits, count |-> count, aggregations |-> aggregations]

NoResponse == Response(<<>>, 0, <<>>)

\* How request req may end: req with its outcome, and the response.
Completions(req) ==
    {[req |-> [req EXCEPT !.outcome = e], response |-> NoResponse] :
        e \in Failures \cup (IF req.api = "get" /\ req.id \notin DOMAIN store
                              THEN {"NotFoundError"} ELSE {})}
    \cup
    (CASE req.api = "count" ->
            {[req |-> req, response |-> Response(<<>>, Cardinality(DOMAIN store), <<>>)]}
       [] req.api = "get" ->
            IF req.id \notin DOMAIN store THEN {}
            ELSE {[req |-> req, response |-> Response(<<GetResponse(req.id)>>, 0, <<>>)]}
       [] req.api = "search" /\ req.query.type = "aggs" ->
            {[req |-> req, response |-> Response(<<>>, 0, <<Aggregations>>)]}
       [] OTHER ->
            {[req |-> Responded(req, hits), response |-> Response(hits, 0, <<>>)] :
                hits \in SearchResponses(req)})

\* The except clause of operation op.
ExceptOf(op, e) ==
    CASE op = "search_by_name" -> search_by_name_except(e)
      [] op = "get_on_sale_products" -> get_on_sale_products_except(e)
      [] op = "get_low_stock_products" -> get_low_stock_products_except(e)
      [] op = "get_by_category" -> get_by_category_except(e)
      [] op = "get_all_products" -> get_all_products_except(e)
      [] op = "get_product_by_id" -> get_product_by_id_except(e)
      [] op = "semantic_search_elser" -> semantic_search_elser_except(e)
      [] op = "get_stats" -> get_stats_except(e)

\* The ways an invocation ends once its requests sent got the responses
\* responses (the last of sent may have raised).
Finishes(op, args, sent, responses) ==
    LET n == Len(sent)
        hits == responses[n].hits
    IN  IF op = "close"
        THEN {Returned("close", NoArgs, <<>>, log, "None", <<>>) : log \in {<<"info">>, <<"error">>}}
        ELSE IF n = 0
        THEN {Returned(op, args, <<>>, <<"warning">>, "list", <<>>)}
        ELSE IF sent[n].outcome # "ok"
        THEN {Handled(op, args, sent, ExceptOf(op, sent[n].outcome))}
        ELSE IF op = "get_stats"
        THEN IF responses[n].aggregations = <<>>
             THEN {Handled(op, args, sent, get_stats_except("KeyError"))}
             ELSE LET aggregations == responses[n].aggregations[1]
                  IN  IF aggregations.avg_price.den = 0 \/ aggregations.avg_rating.den = 0
                      THEN {Handled(op, args, sent, get_stats_except("TypeError"))}
                      ELSE {Returned(op, args, sent, <<"info">>, "dict",
                                     <<stats(responses[1].count, aggregations)>>)}
        ELSE IF op = "get_product_by_id"
        THEN IF hits = <<>>
             THEN {Handled(op, args, sent, get_product_by_id_except("KeyError"))}
             ELSE {Returned(op, args, sent, <<"info">>, "record", <<with_id(hits[1])>>)}
        ELSE IF op = "semantic_search_elser"
        THEN {Returned(op, args, sent, <<"info">>, "list",
                       [i \in 1..Len(hits) |-> with_score(hits[i])])}
        ELSE IF op = "get_on_sale_products"
        THEN IF \E i \in 1..Len(hits) :
                    {"price_per_kg", "discount_percent"} \ DOMAIN hits[i]._source # {}
             THEN {Handled(op, args, sent, get_on_sale_products_except("KeyError"))}
             ELSE {Returned(op, args, sent, <<"info">>, "list",
                            [i \in 1..Len(hits) |->
                                SetKey(with_id(hits[i]), "discounted_price",
                                       discounted_price(with_id(hits[i])))])}
        ELSE {Returned(op, args, sent, <<"info">>, "list",
                       [i \in 1..Len(hits) |-> with_id(hits[i])])}

\* The frame of an invocation: its position, its arguments and its locals.
Frame(pc, op, args, sent, responses, returned) ==
    [pc |-> pc, op |-> op, args |-> args, sent |-> sent, responses |-> responses,
     returned |-> returned]

Idle == Frame("idle", "", NoArgs, <<>>, <<>>, <<>>)

\* The request of thread t the transport is serving.  A transport that is
\* not reentrant serves the request of whichever thread is waiting:
in_flight_of_any(t) ==
    LET u == CHOOSE x \in Threads : threads[x].pc = "waiting"
    IN  Plan(threads[u].op, threads[u].args)[Len(threads[u].sent) + 1]

in_flight(t) == Plan(threads[t].op, threads[t].args)[Len(threads[t].sent) + 1]

ThreadFrame == UNCHANGED <<env, store, adapter, call, caller, setup, reports, bot>>

\* Thread t calls an operation of the adapter.
invoke(t) ==
    /\ threads[t].pc \in {"idle", "returned"}
    /\ \E i \in Invocations :
            threads' = [threads EXCEPT ![t] = Frame("running", i.op, i.args, <<>>, <<>>, <<>>)]
    /\ ThreadFrame

\* The invocation of t hands its next request to the transport and blocks.
send(t) ==
    /\ threads[t].pc = "running"
    /\ Len(threads[t].sent) < Len(Plan(threads[t].op, threads[t].args))
    /\ \A i \in 1..Len(threads[t].sent) : threads[t].sent[i].outcome = "ok"
    /\ threads' = [threads EXCEPT ![t].pc = "waiting"]
    /\ ThreadFrame

\* The request of t completes: a response, an error or a timeout.
complete(t) ==
    /\ threads[t].pc = "waiting"
    /\ \E c \in Completions(in_flight(t)) :
            threads' = [threads EXCEPT ![t].pc = "running",
                                       ![t].sent = Append(@, c.req),
                                       ![t].responses = Append(@, c.response)]
    /\ ThreadFrame

\* The invocation of t returns to its caller.
return(t) ==
    /\ threads[t].pc = "running"
    /\ \/ Len(threads[t].sent) = Len(Plan(threads[t].op, threads[t].args))
       \/ \E i \in 1..Len(threads[t].sent) : threads[t].sent[i].outcome # "ok"
    /\ \E c \in Finishes(threads[t].op, threads[t].args, threads[t].sent, threads[t].responses) :
            threads' = [threads EXCEPT ![t].pc = "returned", ![t].returned = <<c>>]
    /\ ThreadFrame

ThreadInit ==
    /\ env = [ELASTICSEARCH_URL |-> "set", ELASTICSEARCH_API_KEY |-> "set"]
    /\ store \in ThreadStores
    /\ adapter = "ready"
    /\ call = Returned("__init__", NoArgs, <<CountRequest("ok")>>, <<"info">>, "None", <<>>)
    /\ caller = NoCaller
    /\ threads = [t \in Threads |-> Idle]
    /\ setup = NoSetup
    /\ reports = NoReports
    /\ bot = NoBot

ThreadNext ==
    \E t \in Threads :
        \/ invoke(t)
        \/ send(t)
        \/ complete(t)
        \/ return(t)

ThreadSpec == ThreadInit /\ [][ThreadNext]_vars

\* Every request handed to the transport completes, and a thread that can
\* take its next step takes it.
FairThreadSpec ==
    /\ ThreadSpec
    /\ \A t \in Threads : WF_vars(send(t)) /\ WF_vars(complete(t)) /\ WF_vars(return(t))

\* The ends of operation op with arguments args invoked alone: each of its
\* requests answered by the service from the collection.
RECURSIVE AloneRuns(_, _, _)
AloneRuns(plan, sent, responses) ==
    IF Len(sent) = Len(plan) \/ (Len(sent) > 0 /\ sent[Len(sent)].outcome # "ok")
    THEN {[sent |-> sent, responses |-> responses]}
    ELSE UNION {AloneRuns(plan, Append(sent, c.req), Append(responses, c.response)) :
                    c \in Completions(plan[Len(sent) + 1])}

Alone(op, args) ==
    UNION {Finishes(op, args, r.sent, r.responses) : r \in AloneRuns(Plan(op, args), <<>>, <<>>)}

----------------------------------------------------------------------------
(* The other slash commands of the bot *)

\* A product of the list lacks one of the keys the handler indexes.
lacks(products, keys) == \E i \in 1..Len(products) : keys \ DOMAIN products[i] # {}

\* The values the /category command offers.
CategoryChoices == {vegetables, leafy_greens, roots, fruits}

\* A command without text input: its run, after the adapter returned.
BotRun(entry, followups, op) ==
    CallerRun(entry, "", followups, <<AdapterCall(op, "", call'.args.limit, "bot")>>)

\* /on_sale
bot_on_sale ==
    /\ adapter = "ready"
    /\ \E c \in Alone("get_on_sale_products", [NoArgs EXCEPT !.limit = 10]) : call' = c
    /\ caller' = BotRun("/on_sale",
            IF Len(call'.result) = 0 THEN <<"no products on sale">>
            ELSE IF lacks(call'.result, {"price_per_kg", "name"}) THEN handler_except("KeyError")
            ELSE <<"found">>,
            "get_on_sale_products")
    /\ CallerFrame

\* /stock_low threshold
bot_stock_low ==
    /\ adapter = "ready"
    /\ \E threshold \in Thresholds :
            \E c \in Alone("get_low_stock_products", [NoArgs EXCEPT !.threshold = threshold]) :
                call' = c
    /\ caller' = BotRun("/stock_low",
            IF Len(call'.result) = 0 THEN <<"no products with low stock">>
            ELSE IF lacks(call'.result, {"name", "stock_kg", "price_per_kg"})
            THEN handler_except("KeyError")
            ELSE <<"found">>,
            "get_low_stock_products")
    /\ CallerFrame

\* /category category
bot_category ==
    /\ adapter = "ready"
    /\ \E category \in CategoryChoices :
            \E c \in Alone("get_by_category", [NoArgs EXCEPT !.category = category, !.limit = 10]) :
                call' = c
    /\ caller' = BotRun("/category",
            IF Len(call'.result) = 0 THEN <<"no products in category">>
            ELSE IF lacks(call'.result, {"name", "price_per_kg", "quality_rating", "stock_kg"})
            THEN handler_except("KeyError")
            ELSE <<"found">>,
            "get_by_category")
    /\ CallerFrame

\* /stats
bot_stats ==
    /\ adapter = "ready"
    /\ \E c \in Alone("get_stats", NoArgs) : call' = c
    /\ caller' = BotRun("/stats",
            IF call'.result = <<EmptyDict>> THEN <<"could not retrieve statistics">>
            ELSE <<"statistics">>,
            "get_stats")
    /\ CallerFrame

CallerInit ==
    /\ env = [ELASTICSEARCH_URL |-> "set", ELASTICSEARCH_API_KEY |-> "set"]
    /\ store \in CallerStores
    /\ adapter = "ready"
    /\ call = Returned("", NoArgs, <<>>, <<>>, "None", <<>>)
    /\ caller = NoCaller
    /\ threads = NoThreads
    /\ setup = NoSetup
    /\ reports = NoReports
    /\ bot = NoBot

CallerNext ==
    \/ bot_search
    \/ bot_semantic
    \/ bot_report
    \/ bot_on_sale
    \/ bot_stock_low
    \/ bot_category
    \/ bot_stats
    \/ generator_main

CallerSpec == CallerInit /\ [][CallerNext]_vars

----------------------------------------------------------------------------
(* The /report command step by step: the handler yields at each await, the
   generator and vercel run as blocking child processes on the shared
   reports directory *)

Interactions == {"i1", "i2"}

\* datetime.now().strftime("%Y-%m-%d") on two consecutive days
Days == <<"2026-11-05", "2026-11-06">>

ReportQueries == {"tomato", "kale", Chars(201)}

ReportStores == {StoreOf({}), StoreOf({"p1"})}

\* html_file = f"reports/semantic_search_{today}.html", within reports/
html_file(today) == "semantic_search_" \o today \o ".html"

vercel_url == "https://fruits-report-private.vercel.app"

\* report_url = f"{vercel_url}/semantic_search_{today}.html": the site and
\* the path under it.
report_url(today) == [site |-> vercel_url, path |-> "semantic_search_" \o today \o ".html"]

FileNames == {html_file(Days[d]) : d \in DOMAIN Days}

\* A directory without report files (a file holds the report of a query).
NoFiles == [f \in FileNames |-> ""]

Stage(name, outcome) == [name |-> name, outcome |-> outcome]

\* if result.returncode != 0: ... return
returncode_failed_never(end) == FALSE

returncode_failed(end) == end # "exit 0"

IdleReport ==
    [pc |-> "idle", query |-> "", deferred |-> FALSE, products |-> <<>>, followups |-> <<>>,
     stages |-> <<>>, wrote |-> "", url |-> report_url(""), served |-> ""]

ReportFrame == UNCHANGED <<env, store, adapter, call, caller, threads, setup, bot>>

\* The handler of interaction h after one more stretch between two awaits.
ReportStep(h, handler) == reports' = [reports EXCEPT !.handlers[h] = handler]

\* await interaction.response.defer()
report_defer(h) ==
    /\ reports.handlers[h].pc = "idle"
    /\ \E query \in ReportQueries :
            ReportStep(h, [IdleReport EXCEPT !.pc = "deferred", !.query = query, !.deferred = TRUE])
    /\ ReportFrame

\* the length check, then "Searching for ..."
report_validate(h) ==
    LET r == reports.handlers[h]
    IN  /\ r.pc = "deferred"
        /\ IF Len(r.query) > 200
           THEN ReportStep(h, [r EXCEPT !.pc = "done", !.followups = Append(@, "too long")])
           ELSE ReportStep(h, [r EXCEPT !.pc = "searching", !.followups = Append(@, "searching")])
        /\ ReportFrame

\* products = self.es_client.semantic_search_elser(query, limit=10)
report_search(h) ==
    LET r == reports.handlers[h]
    IN  /\ r.pc = "searching"
        /\ \E c \in Alone("semantic_search_elser", [NoArgs EXCEPT !.text = r.query, !.limit = 10]) :
                IF c.result = <<>>
                THEN ReportStep(h, [r EXCEPT !.pc = "done",
                                             !.stages = Append(@, Stage("search", "empty")),
                                             !.followups = Append(@, "no products found")])
                ELSE ReportStep(h, [r EXCEPT !.pc = "generating", !.products = c.result,
                                             !.stages = Append(@, Stage("search", "found")),
                                             !.followups = Append(@, "generating")])
        /\ ReportFrame

\* subprocess.run(["python3", "semantic_report_generator.py", query]): the
\* generator searches on its own and writes the file named after its own
\* today; it exits with 0 also when it found nothing or failed to write.
report_generate(h) ==
    LET r == reports.handlers[h]
        ran(end) == Append(r.stages, Stage("generate", end))
    IN  /\ r.pc = "generating"
        /\ \E end \in GeneratorEnds, written \in BOOLEAN :
                IF end = "OSError"
                THEN ReportStep(h, [r EXCEPT !.pc = "done", !.stages = ran(end),
                                             !.followups = @ \o handler_except(end)])
                ELSE IF returncode_failed(end)
                THEN ReportStep(h, [r EXCEPT !.pc = "done", !.stages = ran(end),
                                             !.followups = Append(@, "report generation failed")])
                ELSE \E g \in Alone("semantic_search_elser",
                                    [NoArgs EXCEPT !.text = join(<<r.query>>), !.limit = 10]) :
                        IF g.result = <<>> \/ ~written \/ end # "exit 0"
                        THEN ReportStep(h, [r EXCEPT !.pc = "deploying", !.stages = ran(end),
                                                     !.followups = Append(@, "deploying")])
                        ELSE reports' =
                                [reports EXCEPT
                                    !.files[html_file(reports.clock)] = join(<<r.query>>),
                                    !.handlers[h] =
                                        [r EXCEPT !.pc = "deploying", !.stages = ran(end),
                                                  !.wrote = html_file(reports.clock),
                                                  !.followups = Append(@, "deploying")]]
        /\ ReportFrame

\* subprocess.run(["vercel", "--prod", ...], cwd=.../reports), then the URL
\* from the bot's own today and the success message
report_deploy(h) ==
    LET r == reports.handlers[h]
        ran(end) == Append(r.stages, Stage("deploy", end))
        url == report_url(reports.clock)
    IN  /\ r.pc = "deploying"
        /\ \E end \in VercelEnds :
                IF end = "OSError"
                THEN ReportStep(h, [r EXCEPT !.pc = "done", !.stages = ran(end),
                                             !.followups = @ \o handler_except(end)])
                ELSE IF returncode_failed(end)
                THEN ReportStep(h, [r EXCEPT !.pc = "done", !.stages = ran(end),
                                             !.followups = Append(@, "deploy failed")])
                ELSE IF \E i \in 1..Min(3, Len(r.products)) : "name" \notin DOMAIN r.products[i]
                THEN reports' =
                        [reports EXCEPT
                            !.deployed = IF end = "exit 0" THEN reports.files ELSE @,
                            !.handlers[h] = [r EXCEPT !.pc = "done", !.stages = ran(end),
                                                      !.followups = @ \o handler_except("KeyError")]]
                ELSE reports' =
                        [reports EXCEPT
                            !.deployed = IF end = "exit 0" THEN reports.files ELSE @,
                            !.handlers[h] =
                                [r EXCEPT !.pc = "done",
                                          !.stages = Append(ran(end), Stage("success", url.path)),
                                          !.url = url,
                                          !.served = IF end = "exit 0" THEN reports.files[url.path]
                                                     ELSE reports.deployed[url.path],
                                          !.followups = Append(@, "success")]]
        /\ ReportFrame

\* The date changes.
midnight ==
    /\ reports.clock = Days[1]
    /\ reports' = [reports EXCEPT !.clock = Days[2]]
    /\ ReportFrame

ReportInit ==
    /\ env = [ELASTICSEARCH_URL |-> "set", ELASTICSEARCH_API_KEY |-> "set"]
    /\ store \in ReportStores
    /\ adapter = "ready"
    /\ call = Returned("__init__", NoArgs, <<CountRequest("ok")>>, <<"info">>, "None", <<>>)
    /\ caller = NoCaller
    /\ threads = NoThreads
    /\ setup = NoSetup
    /\ bot = NoBot
    /\ reports = [clock |-> Days[1], files |-> NoFiles, deployed |-> NoFiles,
                  handlers |-> [h \in Interactions |-> IdleReport]]

ReportNext ==
    \/ \E h \in Interactions :
        \/ report_defer(h)
        \/ report_validate(h)
        \/ report_search(h)
        \/ report_generate(h)
        \/ report_deploy(h)
    \/ midnight

ReportSpec == ReportInit /\ [][ReportNext]_vars

----------------------------------------------------------------------------
(* The bot process: main, cog_load, on_ready and the dispatch of commands *)

MaxReady == 3    \* on_ready events counted

\* except Exception as e: logger.error(...); raise
cog_load_except_swallowing(e) == ""

cog_load_except(e) == e

\* FreshProduceClient() in the environment env, the count of __init__ ending
\* as outcome: the exception raised, "" if the object is constructed.
construct(outcome) ==
    IF config_missing(env.ELASTICSEARCH_URL, env.ELASTICSEARCH_API_KEY) THEN "ValueError"
    ELSE IF outcome = "ok" THEN ""
    ELSE init_except(outcome).raised

BotFrame == UNCHANGED <<env, store, adapter, call, caller, threads, setup, reports>>

\* await bot.add_cog(FreshProduceBot(bot)): the cog is registered unless
\* cog_load raises.
add_cog ==
    /\ bot.pc = "main"
    /\ \E outcome \in Outcomes :
            LET e == construct(outcome)
            IN  IF e = ""
                THEN bot' = [bot EXCEPT !.pc = "loaded", !.cog_es_client = "client",
                                        !.es_client = "client", !.cog_registered = TRUE,
                                        !.constructions = Append(@, "cog_load")]
                ELSE IF cog_load_except(e) # ""
                THEN bot' = [bot EXCEPT !.pc = "exited", !.raised = cog_load_except(e)]
                ELSE bot' = [bot EXCEPT !.pc = "loaded", !.cog_registered = TRUE]
    /\ BotFrame

\* token = os.getenv("DISCORD_TOKEN"); if not token: raise ValueError;
\* await bot.start(token)
start ==
    /\ bot.pc = "loaded"
    /\ IF Falsy(bot.token)
       THEN bot' = [bot EXCEPT !.pc = "exited", !.raised = "ValueError"]
       ELSE bot' = [bot EXCEPT !.pc = "started"]
    /\ BotFrame

\* on_ready: a client is constructed only if the global es_client is None;
\* then the commands are synced; every exception is logged.
on_ready ==
    /\ bot.pc = "started"
    /\ bot.ready < MaxReady
    /\ \E outcome \in Outcomes, synced \in BOOLEAN :
            IF bot.es_client = "None" /\ construct(outcome) # ""
            THEN bot' = [bot EXCEPT !.ready = @ + 1, !.synced = FALSE]
            ELSE bot' = [bot EXCEPT !.ready = @ + 1, !.synced = synced,
                                    !.es_client = "client",
                                    !.constructions =
                                        IF bot.es_client = "None" THEN Append(@, "on_ready")
                                        ELSE @]
    /\ BotFrame

\* A slash command of the registered cog is dispatched; its handler works
\* with self.es_client.
dispatch ==
    /\ bot.pc = "started"
    /\ bot.cog_registered
    /\ \E command \in {"/search", "/semantic", "/on_sale", "/stock_low", "/category",
                       "/stats", "/report"} :
            bot' = [bot EXCEPT !.handled = command, !.handler_es_client = bot.cog_es_client]
    /\ BotFrame

BotInit ==
    /\ env \in [ELASTICSEARCH_URL : EnvValues, ELASTICSEARCH_API_KEY : EnvValues]
    /\ store = StoreOf({})
    /\ adapter = "none"
    /\ call = Returned("", NoArgs, <<>>, <<>>, "None", <<>>)
    /\ caller = NoCaller
    /\ threads = NoThreads
    /\ setup = NoSetup
    /\ reports = NoReports
    /\ \E token \in EnvValues :
            bot = [pc |-> "main", token |-> token, es_client |-> "None",
                   cog_es_client |-> "None", cog_registered |-> FALSE, constructions |-> <<>>,
                   raised |-> "", ready |-> 0, synced |-> FALSE, handled |-> "",
                   handler_es_client |-> "None"]

BotNext ==
    \/ add_cog
    \/ start
    \/ on_ready
    \/ dispatch

BotSpec == BotInit /\ [][BotNext]_vars

----------------------------------------------------------------------------
(* Properties *)

ListOps ==
    {"search_by_name", "get_on_sale_products", "get_low_stock_products",
     "get_by_category", "get_all_products", "semantic_search_elser"}

AdapterOps == ListOps \cup {"get_product_by_id", "get_stats"}

\* Some outbound request of the last invocation failed.
RequestFailed == \E i \in 1..Len(call.requests) : call.requests[i].outcome # "ok"

\* The last invocation returned the empty-result shape of its operation.
EmptyShape ==
    /\ call.raised = ""
    /\ CASE call.op \in ListOps -> call.shape = "list" /\ Len(call.result) = 0
         [] call.op = "get_product_by_id" -> call.shape = "None"
         [] call.op = "get_stats" ->
                call.shape = "dict" /\ Len(call.result) = 1 /\ DOMAIN call.result[1] = {}
         [] OTHER -> FALSE

\* C1: when an outbound request of one of the eight operations fails, the call
\* does not raise, returns its empty-result shape ([], None or {}) and writes
\* an error log entry.
C1_FailureGivesEmptyShape ==
    (call.op \in AdapterOps /\ RequestFailed) =>
        /\ EmptyShape
        /\ "error" \in Range(call.log)

C1_Witness ==
    /\ call.op = "get_stats"
    /\ Len(call.requests) = 2
    /\ call.requests[2].outcome = "ConnectionError"
    /\ call.shape = "dict"
    /\ "error" \in Range(call.log)

\* A returned record stands for an active document: its status is active, or,
\* when the record carries no status, it is the projection of an active
\* document of the collection.
IsActiveRecord(r) ==
    IF "status" \in DOMAIN r THEN r.status = "active"
    ELSE \E id \in DOMAIN store :
            /\ store[id].status = "active"
            /\ \A f \in (DOMAIN r) \cap (DOMAIN store[id]) : r[f] = store[id][f]

\* C2: every record in a list returned by a list operation has status active,
\* whatever the collection holds.
C2_ListedRecordsAreActive ==
    (call.op \in ListOps /\ call.shape = "list") =>
        \A i \in 1..Len(call.result) : IsActiveRecord(call.result[i])

\* The closed category enumeration, as the specification gives it.
EnumeratedCategories == {vegetables, leafy_greens, roots, fruits}

\* C3: get_by_category with an argument whose normalized form is outside the
\* enumeration returns the empty list and issues no outbound request.
C3_InvalidCategoryNoRequest ==
    (call.op = "get_by_category"
        /\ replace_space(lower(call.args.category)) \notin EnumeratedCategories) =>
        /\ call.raised = ""
        /\ call.shape = "list"
        /\ Len(call.result) = 0
        /\ Len(call.requests) = 0

C3_Witness ==
    /\ call.op = "get_by_category"
    /\ call.args.category = herbs
    /\ Len(call.requests) = 0
    /\ call.shape = "list"

\* C4: get_by_category with an argument whose normalized form X is in the
\* enumeration issues one search filtered on category = X and status = active,
\* sorted by quality_rating descending with size = limit; no returned record
\* is inactive or of another category.
C4_ValidCategoryFilteredQuery ==
    (call.op = "get_by_category"
        /\ replace_space(lower(call.args.category)) \in EnumeratedCategories) =>
        LET X == replace_space(lower(call.args.category))
        IN  /\ Len(call.requests) = 1
            /\ call.requests[1].api = "search"
            /\ call.requests[1].query.type = "bool"
            /\ Len(call.requests[1].query.must) = 2
            /\ call.requests[1].query.must[1] = [op |-> "term", field |-> "category", value |-> X]
            /\ call.requests[1].query.must[2] = [op |-> "term", field |-> "status", value |-> "active"]
            /\ call.requests[1].sort = [field |-> "quality_rating", order |-> "desc"]
            /\ call.requests[1].size = call.args.limit
            /\ \A i \in 1..Len(call.result) :
                    /\ call.result[i].status = "active"
                    /\ call.result[i].category = X

C4_Witness ==
    /\ call.op = "get_by_category"
    /\ call.args.category = <<"L", "e", "a", "f", "y", " ", "G", "r", "e", "e", "n", "s">>
    /\ Len(call.result) = 1
    /\ call.result[1].category = leafy_greens

Abs(x) == IF x < 0 THEN -x ELSE x

\* C5: every record returned by get_on_sale_products is on sale and carries
\* discounted_price, the value price_per_kg * (1 - discount_percent/100) of
\* that record rounded to the nearest hundredth.
C5_OnSaleDiscountedPrice ==
    (call.op = "get_on_sale_products" /\ call.shape = "list") =>
        \A i \in 1..Len(call.result) :
            LET r == call.result[i]
            IN  /\ r.on_sale = TRUE
                /\ "discounted_price" \in DOMAIN r
                /\ Abs(100 * r.discounted_price - r.price_per_kg * (100 - r.discount_percent)) <= 50

C5_Witness ==
    /\ call.op = "get_on_sale_products"
    /\ Len(call.result) = 2
    /\ call.result[1].price_per_kg = 250
    /\ call.result[1].discounted_price = 162
    /\ call.result[2].discounted_price = 506

\* C6: every record returned by get_low_stock_products(t) has stock_kg < t,
\* and the list is in ascending stock_kg order.
C6_LowStockBelowThresholdSorted ==
    (call.op = "get_low_stock_products" /\ call.shape = "list") =>
        /\ \A i \in 1..Len(call.result) : call.result[i].stock_kg < call.args.threshold
        /\ \A i, j \in 1..Len(call.result) :
                i < j => call.result[i].stock_kg <= call.result[j].stock_kg

C6_Witness ==
    /\ call.op = "get_low_stock_products"
    /\ call.args.threshold = 50
    /\ "p5" \in DOMAIN store
    /\ Len(call.result) = 1
    /\ call.result[1].stock_kg = 10

\* The endpoint URL or the API key is unset or empty.
ConfigurationMissing ==
    \/ env.ELASTICSEARCH_URL \in {"<unset>", ""}
    \/ env.ELASTICSEARCH_API_KEY \in {"<unset>", ""}

\* C7: constructing the adapter with the endpoint URL or the API key missing
\* raises before any outbound request, and no adapter object exists.
C7_MissingConfigurationRaises ==
    (call.op = "__init__" /\ ConfigurationMissing) =>
        /\ call.raised = "ValueError"
        /\ Len(call.requests) = 0
        /\ adapter = "none"

C7_Witness ==
    /\ call.op = "__init__"
    /\ env.ELASTICSEARCH_URL = "set"
    /\ env.ELASTICSEARCH_API_KEY = ""
    /\ call.raised = "ValueError"

\* C8 as stated: the adapter raises only for missing endpoint/credentials at
\* construction, and no failed remote request, the connectivity check of the
\* constructor included, is propagated as an exception.
C8_OnlyConfigurationErrorRaised ==
    /\ call.raised # "" => (call.op = "__init__" /\ ConfigurationMissing)
    /\ RequestFailed => call.raised = ""

\* C8 amended: the adapter raises only from its constructor, for missing
\* endpoint/credentials or, after an error log entry, for a failed
\* connectivity check; a failed request of an operation is never propagated.
C8_OnlyConstructionRaises ==
    /\ call.raised # "" =>
            /\ call.op = "__init__"
            /\ adapter = "none"
            /\ \/ ConfigurationMissing /\ call.raised = "ValueError"
               \/ /\ ~ConfigurationMissing
                  /\ RequestFailed
                  /\ call.requests[1].api = "count"
                  /\ call.raised = call.requests[1].outcome
                  /\ "error" \in Range(call.log)
    /\ (call.op = "__init__" /\ RequestFailed) => call.raised # ""
    /\ (call.op \in AdapterOps /\ RequestFailed) => call.raised = ""

C8_Witness ==
    /\ call.op = "__init__"
    /\ ~ConfigurationMissing
    /\ call.raised = "ConnectionError"
    /\ adapter = "none"

\* C9: get_product_by_id issues one document fetch without a status filter;
\* for an id the collection holds it returns that document, active or not,
\* with _id set to the id; for an absent id or on a remote error it returns
\* None and does not raise.
C9_GetByIdFetchesOrNone ==
    call.op = "get_product_by_id" =>
        /\ call.raised = ""
        /\ Len(call.requests) = 1
        /\ call.requests[1].api = "get"
        /\ call.requests[1].id = call.args.text
        /\ call.requests[1].query = [type |-> "none"]
        /\ IF call.args.text \in DOMAIN store /\ call.requests[1].outcome = "ok"
           THEN /\ call.shape = "record"
                /\ Len(call.result) = 1
                /\ call.result[1]._id = call.args.text
                /\ \A f \in DOMAIN store[call.args.text] :
                        f \in DOMAIN call.result[1] /\ call.result[1][f] = store[call.args.text][f]
           ELSE call.shape = "None" /\ Len(call.result) = 0

C9_Witness ==
    /\ call.op = "get_product_by_id"
    /\ call.shape = "record"
    /\ call.result[1]._id = "p3"
    /\ call.result[1].status = "inactive"

\* C10: every record of a list result carries an id, and get_product_by_id
\* with that id on the unchanged collection returns a record with the same id
\* and the same name.
C10_ListedRecordsRoundTrip ==
    (call.op \in ListOps /\ call.shape = "list") =>
        \A i \in 1..Len(call.result) :
            LET r == call.result[i]
            IN  /\ "_id" \in DOMAIN r
                /\ r._id \in DOMAIN store
                /\ with_id(GetResponse(r._id))._id = r._id
                /\ with_id(GetResponse(r._id)).name = r.name

C13_ExactlyOneRequest ==
    call.op \in AdapterOps =>
        IF call.op = "get_stats" THEN Len(call.requests) <= 2
        ELSE Len(call.requests) = 1

\* C13 amended: every invocation issues exactly one outbound request, except
\* get_by_category with a category outside the enumeration, which issues none,
\* and get_stats, which issues the count and, unless the count failed, the
\* aggregation search; no invocation issues more.
C13_RequestsPerInvocation ==
    call.op \in AdapterOps =>
        CASE call.op = "get_stats" ->
                /\ call.requests[1].api = "count"
                /\ IF call.requests[1].outcome # "ok" THEN Len(call.requests) = 1
                   ELSE Len(call.requests) = 2 /\ call.requests[2].api = "search"
          [] call.op = "get_by_category" ->
                IF replace_space(lower(call.args.category)) \in EnumeratedCategories
                THEN Len(call.requests) = 1
                ELSE Len(call.requests) = 0
          [] OTHER -> Len(call.requests) = 1

C13_Witness ==
    /\ call.op = "get_stats"
    /\ Len(call.requests) = 2
    /\ call.requests[1].outcome = "ok"
    /\ call.requests[2].outcome = "ok"
    /\ call.shape = "dict"

\* C14: once an outbound request of an invocation has failed no further
\* request is issued (get_stats does not search after a failed count) and the
\* caller gets the empty result.
C14_NoRequestAfterFailure ==
    call.op \in AdapterOps =>
        \A i \in 1..Len(call.requests) :
            call.requests[i].outcome # "ok" =>
                /\ i = Len(call.requests)
                /\ EmptyShape

C14_Witness ==
    /\ call.op = "get_stats"
    /\ Len(call.requests) = 1
    /\ call.requests[1].api = "count"
    /\ call.requests[1].outcome = "RequestError"
    /\ call.shape = "dict"

\* Requests that read the collection.
ReadApis == {"search", "count", "get"}

\* C15: the adapter is read-only: construction, the operations and close only
\* issue search, count and get requests, and no step of theirs changes the
\* contents of the remote collection.
C15_ReadOnly ==
    [][/\ store' = store
       /\ \A i \in 1..Len(call'.requests) : call'.requests[i].api \in ReadApis]_vars

C15_Witness ==
    /\ call.op = "get_product_by_id"
    /\ call.shape = "record"
    /\ call.requests[1].api = "get"
    /\ call.args.text \in DOMAIN store

\* A run of a list operation or of get_product_by_id whose request failed.
FailedRun(c) ==
    /\ c.op \in ListOps \cup {"get_product_by_id"}
    /\ Len(c.requests) = 1
    /\ c.requests[1].outcome \in {"ConnectionError", "RequestError"}

\* A run whose request succeeded with zero hits, or found no document.
MissRun(c) ==
    /\ c.op \in ListOps \cup {"get_product_by_id"}
    /\ Len(c.requests) = 1
    /\ IF c.op = "get_product_by_id" THEN c.requests[1].outcome = "NotFoundError"
       ELSE c.requests[1].outcome = "ok" /\ c.requests[1].hits = 0

SameReturn(c, d) == c.raised = d.raised /\ c.shape = d.shape /\ c.result = d.result

\* C17: for a list operation and for get_product_by_id, a run whose request
\* fails and a run with the same arguments whose request succeeds with zero
\* hits (or finds no document) return the same value.
C17_MissAndFailureAlike ==
    [][(call.op = call'.op /\ call.args = call'.args
            /\ \/ FailedRun(call) /\ MissRun(call')
               \/ MissRun(call) /\ FailedRun(call'))
        => SameReturn(call, call')]_vars

C17_Witness ==
    /\ MissRun(call)
    /\ call.op = "search_by_name"
    /\ call.args.text = "durian"
    /\ DOMAIN store # {}
    /\ call.shape = "list"
    /\ Len(call.result) = 0

\* C12: no product-name query longer than 100 characters reaches
\* search_by_name and no semantic query longer than 200 characters reaches
\* semantic_search_elser, on any path from /search, /semantic, /report and the
\* command line of the report generator.
C12_OverLengthNeverReachesAdapter ==
    \A i \in 1..Len(caller.adapter_calls) :
        LET c == caller.adapter_calls[i]
        IN  /\ c.op = "search_by_name" => Len(c.text) <= 100
            /\ c.op = "semantic_search_elser" => Len(c.text) <= 200

\* Every call the run made so far got its regular answer.
AllCallsSucceeded ==
    \A i \in 1..Len(setup.steps) :
        \A j \in 1..Len(setup.steps[i].requests) : setup.steps[i].requests[j].outcome = "ok"

\* C19: when run_setup runs against a cluster whose ELSER model is not in
\* state started and every remote call succeeds, the run executes the
\* Deploy ELSER step, which deploys the model, and returns True.
C19_DeploysElserWhenNotStarted ==
    (setup.pc = 8
        /\ setup.initial.model = "not_deployed"
        /\ ~setup.skip_elser
        /\ setup.file /\ setup.products >= 1
        /\ AllCallsSucceeded) =>
        /\ \E i \in 1..Len(setup.steps) : setup.steps[i].name = "Deploy ELSER"
        /\ setup.cluster.model = "started"
        /\ setup.result = "True"

\* The steps of run_setup, in order.
SevenSteps ==
    <<"Create Index", "Load Products", "Check ELSER", "Deploy ELSER", "Create Pipeline",
      "Generate Embeddings", "Validate Setup">>

\* C20: run_setup executes its seven steps in the fixed order; a step starts
\* only if every earlier step returned True; no step runs after the first
\* failing one; the result is True exactly when all seven returned True, and
\* then the index exists, holds a document, ELSER is started and the
\* pipeline exists.
C20_StepsInOrderUntilFailure ==
    setup.pc > 0 =>
        /\ Len(setup.steps) <= 7
        /\ \A i \in 1..Len(setup.steps) :
                /\ setup.steps[i].name = SevenSteps[i]
                /\ i < Len(setup.steps) => setup.steps[i].returned
        /\ setup.result = "running" <=> setup.pc <= 7
        /\ setup.pc <= 7 =>
                /\ Len(setup.steps) = setup.pc - 1
                /\ \A i \in 1..Len(setup.steps) : setup.steps[i].returned
        /\ setup.pc = 8 =>
                /\ setup.result \in {"True", "False"}
                /\ setup.result = "True" <=>
                        /\ Len(setup.steps) = 7
                        /\ \A i \in 1..7 : setup.steps[i].returned
        /\ setup.result = "True" =>
                /\ setup.cluster.index
                /\ DocCount(setup.cluster) >= 1
                /\ setup.cluster.model = "started"
                /\ setup.cluster.pipeline

C20_Witness ==
    /\ setup.pc = 8
    /\ setup.result = "True"
    /\ Len(setup.steps) = 7
    /\ setup.force
    /\ setup.initial.foreign
    /\ ~setup.cluster.foreign

\* C16: no operation writes an attribute of the adapter object after
\* construction, and under every interleaving of invocations on one object
\* against an unchanged collection each invocation returns a result it
\* returns when it runs alone.
C16_ConcurrentAsAlone ==
    /\ [][adapter' = adapter /\ store' = store]_vars
    /\ [](\A t \in Threads :
            threads[t].pc = "returned" =>
                threads[t].returned[1] \in Alone(threads[t].op, threads[t].args))

C16_Witness ==
    /\ threads["t1"].pc = "returned" /\ threads["t2"].pc = "returned"
    /\ threads["t1"].op = "search_by_name" /\ threads["t1"].returned[1].result # <<>>
    /\ threads["t2"].op = "get_stats" /\ threads["t2"].returned[1].result # <<EmptyDict>>

\* C18: every request an operation issues is subject to a bounded timeout,
\* and every invocation returns to its caller, given that each request
\* completes with a response, an error or a timeout.
C18_BoundedAndReturns ==
    /\ [](\A t \in Threads : \A i \in 1..Len(threads[t].sent) : Deadline(threads[t].sent[i]) > 0)
    /\ \A t \in Threads :
            (threads[t].pc \in {"running", "waiting"}) ~> (threads[t].pc = "returned")

C18_Witness ==
    \E t \in Threads :
        /\ threads[t].pc = "returned"
        /\ threads[t].op \in {"get_product_by_id", "semantic_search_elser"}
        /\ Len(threads[t].sent) = 1
        /\ threads[t].sent[1].timeout = ""

\* The first step of the run, once taken.
CreateIndexDone == Len(setup.steps) = 1

\* Position of the first request to api among requests (0 if there is none).
FirstOf(requests, api) ==
    IF \E i \in 1..Len(requests) : requests[i].api = api
    THEN CHOOSE i \in 1..Len(requests) :
            /\ requests[i].api = api
            /\ \A j \in 1..(i - 1) : requests[j].api # api
    ELSE 0

ReportStages == <<"search", "generate", "deploy", "success">>

\* C22: the stages of /report run in the order semantic search, report
\* generation, Vercel deploy, success message; generation starts only after
\* a non-empty search result, the deploy only after the generator exited
\* with 0, the success message only after the deploy exited with 0; after a
\* failure no later stage runs.
C22_ReportStagesInOrder ==
    \A h \in Interactions :
        LET stages == reports.handlers[h].stages
        IN  /\ Len(stages) <= 4
            /\ \A k \in 1..Len(stages) : stages[k].name = ReportStages[k]
            /\ Len(stages) >= 2 => stages[1].outcome = "found"
            /\ Len(stages) >= 3 => stages[2].outcome = "exit 0"
            /\ Len(stages) >= 4 => stages[3].outcome = "exit 0"
            /\ "success" \in Range(reports.handlers[h].followups) <=> Len(stages) = 4

C22_Witness ==
    \E h \in Interactions :
        /\ Len(reports.handlers[h].stages) = 4
        /\ reports.handlers[h].followups = <<"searching", "generating", "deploying", "success">>

\* C23: whenever /report sends its success message for query q, the URL in
\* the message names the file the generator run of that same invocation
\* wrote, and what is deployed under that URL is the report for q, under
\* every interleaving of invocations and across a change of date.
C23_ReportUrlServesOwnReport ==
    \A h \in Interactions :
        LET r == reports.handlers[h]
        IN  "success" \in Range(r.followups) =>
                /\ r.wrote = r.url.path
                /\ r.served = r.query

SlashCommands == {"/search", "/semantic", "/on_sale", "/stock_low", "/category", "/stats", "/report"}

\* C24: every run of a slash command has deferred the interaction and has
\* sent at least one follow-up message, whichever path it took: rejected
\* input, empty result, success or an exception inside the handler.
C24_DeferredAndAnswered ==
    caller.entry \in SlashCommands =>
        /\ caller.deferred
        /\ Len(caller.followups) >= 1

C24_Witness ==
    /\ caller.entry = "/stock_low"
    /\ caller.deferred
    /\ caller.followups = <<"error">>

\* C25: whenever a slash-command handler runs, self.es_client is a
\* constructed FreshProduceClient: the cog is registered only after cog_load
\* constructed the client, and no on_ready event constructs a second client
\* once the global es_client is set.
C25_HandlerHasClient ==
    /\ bot.handled # "" => bot.handler_es_client = "client"
    /\ bot.cog_registered => bot.cog_es_client = "client" /\ bot.es_client = "client"
    /\ bot.constructions \in {<<>>, <<"cog_load">>}

C25_Witness ==
    /\ bot.handled = "/stats"
    /\ bot.ready = MaxReady
    /\ bot.constructions = <<"cog_load">>

\* Thread t has returned from a list operation whose one request succeeded.
ListAnswered(t) ==
    /\ threads[t].pc = "returned"
    /\ threads[t].op \in ListOps
    /\ Len(threads[t].sent) = 1
    /\ threads[t].sent[1].outcome = "ok"

\* record is the source fields of hit plus the value of key taken from the
\* hit, plus the fields extra.
IsRecordOf(record, hit, key, extra) ==
    /\ DOMAIN record = (DOMAIN hit._source) \cup {key} \cup extra
    /\ record[key] = hit[key]
    /\ \A f \in (DOMAIN hit._source) \ ({key} \cup extra) : record[f] = hit._source[f]

KeyOf(op) == IF op = "semantic_search_elser" THEN "_score" ELSE "_id"

\* C26 as stated: for every list operation whose request succeeded the
\* returned list has exactly one record per hit, in the order of the
\* response, each being the source fields of the hit plus its _id (its
\* _score for semantic_search_elser).
C26_OneRecordPerHit ==
    \A t \in Threads :
        ListAnswered(t) =>
            LET hits == threads[t].responses[1].hits
                result == threads[t].returned[1].result
            IN  /\ Len(result) = Len(hits)
                /\ \A i \in 1..Len(hits) :
                        IsRecordOf(result[i], hits[i], KeyOf(threads[t].op), {})

\* A hit of get_on_sale_products that cannot be processed.
Unprocessable(op, hits) ==
    /\ op = "get_on_sale_products"
    /\ \E i \in 1..Len(hits) : {"price_per_kg", "discount_percent"} \ DOMAIN hits[i]._source # {}

\* C26, amended: the same for every response that is processed without an
\* error, the records of get_on_sale_products having the field
\* discounted_price besides.
C26_OneRecordPerProcessedHit ==
    \A t \in Threads :
        LET hits == threads[t].responses[1].hits
            result == threads[t].returned[1].result
        IN  (ListAnswered(t) /\ ~Unprocessable(threads[t].op, hits)) =>
                /\ Len(result) = Len(hits)
                /\ \A i \in 1..Len(hits) :
                        IsRecordOf(result[i], hits[i], KeyOf(threads[t].op),
                                   IF threads[t].op = "get_on_sale_products"
                                   THEN {"discounted_price"} ELSE {})

C26_Witness ==
    \E t \in Threads :
        /\ ListAnswered(t)
        /\ threads[t].op = "search_by_name"
        /\ Len(threads[t].responses[1].hits) = 2
        /\ Len(threads[t].returned[1].result) = 2

SummaryKeys ==
    {"total_products", "average_price_per_kg", "average_rating", "total_stock_kg",
     "organic_products", "products_on_sale", "categories"}

\* C27: no operation returns a partial result: a list is empty or has a
\* record for every hit, and it is empty when a hit of get_on_sale_products
\* lacks price_per_kg or discount_percent; the summary of get_stats is empty
\* or has all seven keys, and it is empty when an average is null.
C27_NoPartialResult ==
    \A t \in Threads :
        LET r == threads[t]
        IN  /\ ListAnswered(t) =>
                /\ Len(r.returned[1].result) \in {0, Len(r.responses[1].hits)}
                /\ Unprocessable(r.op, r.responses[1].hits) => r.returned[1].result = <<>>
            /\ (r.pc = "returned" /\ r.op = "get_stats") =>
                /\ \/ r.returned[1].result = <<EmptyDict>>
                   \/ DOMAIN r.returned[1].result[1] = SummaryKeys
                /\ (Len(r.sent) = 2 /\ r.sent[2].outcome = "ok"
                        /\ (r.responses[2].aggregations[1].avg_price.den = 0
                                \/ r.responses[2].aggregations[1].avg_rating.den = 0)) =>
                        r.returned[1].result = <<EmptyDict>>

C27_Witness ==
    /\ threads["t1"].pc = "returned" /\ threads["t1"].op = "get_on_sale_products"
    /\ ListAnswered("t1")
    /\ Len(threads["t1"].responses[1].hits) > 0
    /\ threads["t1"].returned[1].result = <<>>
    /\ threads["t2"].pc = "returned" /\ threads["t2"].op = "get_stats"
    /\ Len(threads["t2"].sent) = 2 /\ threads["t2"].sent[2].outcome = "ok"
    /\ threads["t2"].returned[1].result # <<EmptyDict>>

====
